---- MODULE Spec2Model ----
(***************************************************************************)
(* Model of the gmail-scanner repository:                                  *)
(*   src/inboxscanner2.py  EmailScanner   (scan, aggregate, report)        *)
(*   src/unsubscriber.py   UnsubscribeAutomation (act on the edited report)*)
(*                                                                         *)
(* Text is modelled as sequences of one-character strings, so that the     *)
(* parsing, matching and lowercasing the code does are computed and not    *)
(* assumed.                                                                *)
(***************************************************************************)
EXTENDS Integers, Sequences, FiniteSets, TLC

(***************************************************************************)
(* Characters and strings                                                  *)
(***************************************************************************)
\* a string literal as the sequence of its characters
Str(s) == [i \in 1..Len(s) |-> SubSeq(s, i, i)]

UpperChars == <<"A","B","C","D","E","F","G","H","I","J","K","L","M",
                "N","O","P","Q","R","S","T","U","V","W","X","Y","Z">>
LowerChars == <<"a","b","c","d","e","f","g","h","i","j","k","l","m",
                "n","o","p","q","r","s","t","u","v","w","x","y","z">>
DigitChars == <<"0","1","2","3","4","5","6","7","8","9">>

Range(q) == {q[i] : i \in DOMAIN q}

UpperSet == Range(UpperChars)
LowerSet == Range(LowerChars)
DigitSet == Range(DigitChars)

\* str.lower() on one character
LowerMap == [c \in UpperSet |-> LowerChars[CHOOSE i \in 1..26 : UpperChars[i] = c]]
lower_char(c) == IF c \in UpperSet THEN LowerMap[c] ELSE c
\* str.lower()
lower(s) == [i \in 1..Len(s) |-> lower_char(s[i])]

\* regex classes: \w, [\w.-], \s
WordChars == UpperSet \cup LowerSet \cup DigitSet \cup {"_"}
DomainChars == WordChars \cup {".", "-"}
SpaceChars == {" ", "\t", "\n", "\r"}

\* s[i:] and s[i:j] with 1-based inclusive positions
From(s, i) == SubSeq(s, i, Len(s))
\* does pat occur in s at position i
At(s, i, pat) == i >= 1 /\ i + Len(pat) - 1 <= Len(s)
                 /\ SubSeq(s, i, i + Len(pat) - 1) = pat
\* case-insensitive variant (pat is given lowercase)
AtI(s, i, pat) == i >= 1 /\ i + Len(pat) - 1 <= Len(s)
                  /\ lower(SubSeq(s, i, i + Len(pat) - 1)) = pat
\* `pat in s`
Contains(s, pat) == \E i \in 1..(Len(s) + 1) : At(s, i, pat)
\* first position >= i at which s has a character of class C (Len(s)+1 if none)
RECURSIVE FindIn(_, _, _)
FindIn(s, i, C) == IF i > Len(s) THEN Len(s) + 1
                   ELSE IF s[i] \in C THEN i ELSE FindIn(s, i + 1, C)
\* first position >= i at which s has a character outside class C
RECURSIVE FindNotIn(_, _, _)
FindNotIn(s, i, C) == IF i > Len(s) THEN Len(s) + 1
                      ELSE IF s[i] \notin C THEN i ELSE FindNotIn(s, i + 1, C)
\* ''.join(list)
RECURSIVE Join(_)
Join(l) == IF l = <<>> THEN <<>> ELSE Head(l) \o Join(Tail(l))
\* str.split(sep) for a one-character separator
RECURSIVE Split(_, _)
Split(s, sep) ==
    LET p == FindIn(s, 1, {sep})
    IN IF p > Len(s) THEN <<s>>
       ELSE <<SubSeq(s, 1, p - 1)>> \o Split(From(s, p + 1), sep)
\* least and greatest of a set of numbers
Min(S) == CHOOSE x \in S : \A y \in S : x <= y
Max(S) == CHOOSE x \in S : \A y \in S : y <= x
\* a list of words, written as one literal with blanks between them
Words(s) == Split(Str(s), " ")

(***************************************************************************)
(* email.utils.parseaddr, as far as _extract_domain_from_email uses it:    *)
(* the address part of the first address of the header.  The operators     *)
(* follow email._parseaddr.AddrlistClass (Python 3.11) for headers without *)
(* comments "( )", groups ":", domain literals "[ ]" and backslashes.      *)
(***************************************************************************)
LWS == {" ", "\t"}
Specials == {"(", ")", "<", ">", "@", ",", ":", ";", ".", "\"", "[", "]"}
AtomEnds == Specials \cup LWS \cup {"\r", "\n"}
PhraseEnds == AtomEnds \ {"."}

gotonext(f, p) == FindNotIn(f, p, LWS \cup {"\n", "\r"})
\* the white space gotonext returns when it moves from a to b
SkippedWs(f, a, b) == SelectSeq(SubSeq(f, a, b - 1), LAMBDA c : c \in LWS)

getatom(f, p, ends) ==
    LET q == FindIn(f, p, ends) IN [pos |-> q, val |-> SubSeq(f, p, q - 1)]

getquote(f, p) ==
    LET q == FindIn(f, p + 1, {"\"", "\r"})
    IN [pos |-> IF q > Len(f) THEN q ELSE q + 1, val |-> SubSeq(f, p + 1, q - 1)]

RECURSIVE getphraselist(_, _, _)
getphraselist(f, p, plist) ==
    IF p > Len(f) THEN [pos |-> p, val |-> plist]
    ELSE IF f[p] \in SpaceChars THEN getphraselist(f, p + 1, plist)
    ELSE IF f[p] = "\"" THEN
        LET q == getquote(f, p) IN getphraselist(f, q.pos, Append(plist, q.val))
    ELSE IF f[p] \in PhraseEnds THEN [pos |-> p, val |-> plist]
    ELSE LET a == getatom(f, p, PhraseEnds)
         IN getphraselist(f, a.pos, Append(plist, a.val))

RECURSIVE getdomain(_, _, _)
getdomain(f, p, sdlist) ==
    IF p > Len(f) THEN [pos |-> p, val |-> sdlist]
    ELSE IF f[p] \in LWS THEN getdomain(f, p + 1, sdlist)
    ELSE IF f[p] = "." THEN getdomain(f, p + 1, sdlist \o <<".">>)
    ELSE IF f[p] = "@" THEN [pos |-> p, val |-> <<>>]
    ELSE IF f[p] \in AtomEnds THEN [pos |-> p, val |-> sdlist]
    ELSE LET a == getatom(f, p, AtomEnds) IN getdomain(f, a.pos, sdlist \o a.val)

IsBlank(e) == \A i \in 1..Len(e) : e[i] \in SpaceChars
PopBlank(aslist) ==
    IF aslist # <<>> /\ IsBlank(aslist[Len(aslist)])
    THEN SubSeq(aslist, 1, Len(aslist) - 1) ELSE aslist
PushWs(aslist, ws) == IF ws # <<>> THEN Append(aslist, ws) ELSE aslist

RECURSIVE addrspec_local(_, _, _)
addrspec_local(f, p, aslist) ==
    IF p > Len(f) THEN [pos |-> p, val |-> aslist]
    ELSE IF f[p] = "." THEN
        addrspec_local(f, gotonext(f, p + 1), Append(PopBlank(aslist), <<".">>))
    ELSE IF f[p] = "\"" THEN
        LET q == getquote(f, p)
            n == gotonext(f, q.pos)
        IN addrspec_local(f, n, PushWs(Append(aslist, <<"\"">> \o q.val \o <<"\"">>),
                                       SkippedWs(f, q.pos, n)))
    ELSE IF f[p] \in AtomEnds THEN [pos |-> p, val |-> PopBlank(aslist)]
    ELSE LET a == getatom(f, p, AtomEnds)
             n == gotonext(f, a.pos)
         IN addrspec_local(f, n, PushWs(Append(aslist, a.val), SkippedWs(f, a.pos, n)))

getaddrspec(f, p) ==
    LET l == addrspec_local(f, gotonext(f, p), <<>>)
    IN IF l.pos > Len(f) \/ f[l.pos] # "@" THEN [pos |-> l.pos, val |-> Join(l.val)]
       ELSE LET d == getdomain(f, gotonext(f, l.pos + 1), <<>>)
            IN [pos |-> d.pos,
                val |-> IF d.val = <<>> THEN <<>> ELSE Join(l.val) \o <<"@">> \o d.val]

RECURSIVE routeaddr_loop(_, _, _)
routeaddr_loop(f, p, expectroute) ==
    IF p > Len(f) THEN [pos |-> p, val |-> <<>>]
    ELSE IF expectroute THEN
        routeaddr_loop(f, gotonext(f, getdomain(f, p, <<>>).pos), FALSE)
    ELSE IF f[p] = ">" THEN [pos |-> p + 1, val |-> <<>>]
    ELSE IF f[p] = "@" THEN routeaddr_loop(f, gotonext(f, p + 1), TRUE)
    ELSE IF f[p] = ":" THEN routeaddr_loop(f, gotonext(f, p + 1), FALSE)
    ELSE LET a == getaddrspec(f, p) IN [pos |-> a.pos + 1, val |-> a.val]

getrouteaddr(f, p) == routeaddr_loop(f, gotonext(f, p + 1), FALSE)

\* the second component of parseaddr(f)
parseaddr(f) ==
    LET p0 == gotonext(f, 1)
        pl == getphraselist(f, p0, <<>>)
        p1 == gotonext(f, pl.pos)
    IN IF p1 > Len(f) THEN (IF pl.val # <<>> THEN pl.val[1] ELSE <<>>)
       ELSE IF f[p1] \in {".", "@"} THEN getaddrspec(f, p0).val
       ELSE IF f[p1] = "<" THEN getrouteaddr(f, p1).val
       ELSE IF pl.val # <<>> THEN pl.val[1] ELSE <<>>

(***************************************************************************)
(* EmailScanner._extract_domain_from_email                                 *)
(***************************************************************************)
TLDs ==
    Words("com org net edu gov io ai app co us uk de fr es it nl ru")
    \o Words("cn jp br au ca ch se no dk fi pl cz hu ro bg gr pt ie be")
    \o Words("at sk hr rs si ee lv lt by ua md tr il sa ae qa eg za in")
    \o Words("pk bd th vn id ph my sg kr tw hk nz")

\* email_addr.split('@')[1].lower() when '@' is in email_addr
addr_domain(email_addr) ==
    IF Contains(email_addr, <<"@">>)
    THEN [found |-> TRUE, domain |-> lower(Split(email_addr, "@")[2])]
    ELSE [found |-> FALSE, domain |-> <<>>]

\* strategy 1: the address parseaddr finds, split at "@"
AddrDomain(email_str) == addr_domain(parseaddr(email_str))

\* the group of r'@([\w.-]+)' for the leftmost "@" that a domain character
\* follows, lowercased
at_group(email_str, hits) ==
    IF hits = {} THEN [found |-> FALSE, domain |-> <<>>]
    ELSE [found |-> TRUE,
          domain |-> lower(SubSeq(email_str, Min(hits) + 1,
                                  FindNotIn(email_str, Min(hits) + 1, DomainChars) - 1))]

\* strategy 2: re.search(r'@([\w.-]+)', email_str)
AtRegexDomain(email_str) ==
    at_group(email_str, {i \in 1..(Len(email_str) - 1) :
                            email_str[i] = "@" /\ email_str[i + 1] \in DomainChars})

\* length of the first alternative of the TLD list among hits (0 if none)
first_tld_len(hits) == IF hits = {} THEN 0 ELSE Len(TLDs[Min(hits)])
\* length of the first alternative of the TLD list that occurs at p
TldLenAt(s, p) == first_tld_len({k \in 1..Len(TLDs) : At(s, p, TLDs[k])})

\* the run from g up to the TLD after the last of the dots ks (offsets from g)
tld_group(s, g, ks) ==
    IF ks = {} THEN <<>>
    ELSE SubSeq(s, g, g + Max(ks) + TldLenAt(s, g + Max(ks) + 1))

\* ([\w.-]+(?:\.(?:com|org|...))) anchored at g: the greedy run, backed off to
\* the last "." of the run that a listed TLD follows
TldGroupAt(s, g) ==
    tld_group(s, g, {k \in 1..(FindNotIn(s, g, DomainChars) - 1 - g) :
                        s[g + k] = "." /\ TldLenAt(s, g + k + 1) > 0})

\* the first element of q that is not empty (<<>> if none)
first_nonempty(q) ==
    IF \A n \in DOMAIN q : q[n] = <<>> THEN <<>>
    ELSE q[Min({n \in DOMAIN q : q[n] # <<>>})]

\* (?:https?://)? and (?:www\.)? : the length matched at i, when taken
scheme_len(s, i) == IF At(s, i, Str("https://")) THEN 8
                    ELSE IF At(s, i, Str("http://")) THEN 7 ELSE 0
www_len(s, j) == IF At(s, j, Str("www.")) THEN 4 ELSE 0

\* (?:https?://)?(?:www\.)? then the group, anchored at i: each optional
\* prefix is tried taken before it is tried skipped
TldMatchAt(s, i) ==
    first_nonempty(<<
        TldGroupAt(s, i + scheme_len(s, i) + www_len(s, i + scheme_len(s, i))),
        TldGroupAt(s, i + scheme_len(s, i)),
        TldGroupAt(s, i + www_len(s, i)),
        TldGroupAt(s, i) >>)

tld_domain(group) ==
    IF group = <<>> THEN [found |-> FALSE, domain |-> <<>>]
    ELSE [found |-> TRUE, domain |-> lower(group)]

\* strategy 3: re.search(domain_pattern, email_str)
TldRegexDomain(email_str) ==
    tld_domain(first_nonempty([i \in 1..Len(email_str) |-> TldMatchAt(email_str, i)]))

\* the try/except chain of the method: the first strategy that finds a domain
\* answers, and the whole string lowercased is the last resort
first_strategy(a, b, c) ==
    IF a.found THEN 1 ELSE IF b.found THEN 2 ELSE IF c.found THEN 3 ELSE 4
first_domain(a, b, c, whole) ==
    IF a.found THEN a.domain
    ELSE IF b.found THEN b.domain
    ELSE IF c.found THEN c.domain
    ELSE whole

\* which strategy answers: 1 address, 2 @-regex, 3 TLD regex, 4 whole string
DomainStrategy(email_str) ==
    first_strategy(AddrDomain(email_str), AtRegexDomain(email_str),
                   TldRegexDomain(email_str))

extract_domain_from_email(email_str) ==
    first_domain(AddrDomain(email_str), AtRegexDomain(email_str),
                 TldRegexDomain(email_str), lower(email_str))

(***************************************************************************)
(* EmailScanner._normalize_service_name and _find_accounts                 *)
(***************************************************************************)
service_mappings == <<
    [main |-> Str("google"), aliases |-> Words("gmail googlemail")],
    [main |-> Str("microsoft"), aliases |-> Words("outlook hotmail live")],
    [main |-> Str("meta"), aliases |-> Words("facebook instagram whatsapp")],
    [main |-> Str("amazon"), aliases |-> Words("aws prime")],
    [main |-> Str("zoom"), aliases |-> Words("zoominfo zoomvideo")],
    [main |-> Str("youtube"), aliases |-> Words("yt youtu")] >>

normalize_service_name(service) ==
    LET s == lower(service)
        hits == {k \in 1..Len(service_mappings) : s \in Range(service_mappings[k].aliases)}
    IN IF hits = {} THEN s
       ELSE service_mappings[CHOOSE k \in hits : \A j \in hits : k <= j].main

patterns == <<
    [category |-> "Social Media", keywords |-> Words("facebook twitter instagram linkedin tiktok reddit snapchat pinterest")],
    [category |-> "Shopping", keywords |-> Words("amazon ebay etsy shopify walmart target bestbuy aliexpress")],
    [category |-> "Finance", keywords |-> Words("paypal stripe bank credit venmo cashapp wise coinbase crypto")],
    [category |-> "Cloud Services", keywords |-> Words("google dropbox icloud onedrive box mega protonmail")],
    [category |-> "Subscription Services", keywords |-> Words("netflix spotify hulu disney prime youtube paramount peacock apple")],
    [category |-> "Gaming", keywords |-> Words("steam epic origin uplay psn xbox nintendo battlenet")],
    [category |-> "Professional", keywords |-> Words("slack zoom teams asana jira trello github gitlab")],
    [category |-> "Travel", keywords |-> Words("airbnb booking expedia uber lyft airlines hotel")] >>

\* re.finditer(pattern, content, re.IGNORECASE) for one alternation of
\* keywords: the texts matched, left to right, first alternative first, without
\* overlap (lc is content lowercased)
RECURSIVE finditer_keywords(_, _, _, _)
finditer_keywords(content, lc, i, keywords) ==
    IF i > Len(content) THEN {}
    ELSE LET hits == {k \in 1..Len(keywords) : At(lc, i, keywords[k])}
         IN IF hits = {} THEN finditer_keywords(content, lc, i + 1, keywords)
            ELSE LET n == Len(keywords[CHOOSE k \in hits : \A j \in hits : k <= j])
                 IN {SubSeq(content, i, i + n - 1)}
                    \cup finditer_keywords(content, lc, i + n, keywords)

\* the set of (service, category) pairs
find_accounts(content) ==
    UNION {{<<normalize_service_name(g), patterns[c].category>> :
               g \in finditer_keywords(content, lower(content), 1, patterns[c].keywords)} :
           c \in 1..Len(patterns)}

(***************************************************************************)
(* The regular expressions of _store_unsubscribe_info and                  *)
(* _extract_unsubscribe_info                                               *)
(***************************************************************************)
\* re.findall(r'<(https?://[^>]+)>', header)
RECURSIVE findall_header_urls(_, _)
findall_header_urls(header, i) ==
    IF i > Len(header) THEN <<>>
    ELSE LET h == IF At(header, i, Str("<https://")) THEN 9
                  ELSE IF At(header, i, Str("<http://")) THEN 8 ELSE 0
             e == FindIn(header, i + h, {">"})
         IN IF h > 0 /\ e <= Len(header) /\ e > i + h
            THEN <<SubSeq(header, i + 1, e - 1)>> \o findall_header_urls(header, e + 1)
            ELSE findall_header_urls(header, i + 1)

\* re.findall(r'<mailto:([^>]+)>', header)
RECURSIVE findall_header_mailtos(_, _)
findall_header_mailtos(header, i) ==
    IF i > Len(header) THEN <<>>
    ELSE LET h == IF At(header, i, Str("<mailto:")) THEN 8 ELSE 0
             e == FindIn(header, i + h, {">"})
         IN IF h > 0 /\ e <= Len(header) /\ e > i + h
            THEN <<SubSeq(header, i + h, e - 1)>> \o findall_header_mailtos(header, e + 1)
            ELSE findall_header_mailtos(header, i + 1)

\* the keyword alternatives of the three body patterns, "-?" spelled out
unsubscribe_patterns == <<
    {Str("unsubscribe"), Str("optout"), Str("opt-out")},
    {Str("emailpreferences"), Str("email-preferences")},
    {Str("managesubscriptions"), Str("manage-subscriptions")} >>

\* [^\s<>"]
UrlStop == SpaceChars \cup {"<", ">", "\""}

\* re.finditer(r'(?i)https?://[^\s<>"]+(?:words)[^\s<>"]*', content): the
\* matches in order (lc is content lowercased)
RECURSIVE finditer_urls(_, _, _, _)
finditer_urls(content, lc, i, words) ==
    IF i > Len(content) THEN <<>>
    ELSE LET h == IF At(lc, i, Str("https://")) THEN 8
                  ELSE IF At(lc, i, Str("http://")) THEN 7 ELSE 0
             b == i + h
             e == FindIn(content, b, UrlStop)
         IN IF h > 0 /\ \E w \in words : \E k \in (b + 1)..(e - Len(w)) : At(lc, k, w)
            THEN <<SubSeq(content, i, e - 1)>> \o finditer_urls(content, lc, e, words)
            ELSE finditer_urls(content, lc, i + 1, words)

\* the URLs _extract_unsubscribe_info passes on, in the order it does:
\* those of the List-Unsubscribe header, then those of the three body patterns
unsubscribe_url_calls(list_unsubscribe, content) ==
    findall_header_urls(list_unsubscribe, 1)
    \o finditer_urls(content, lower(content), 1, unsubscribe_patterns[1])
    \o finditer_urls(content, lower(content), 1, unsubscribe_patterns[2])
    \o finditer_urls(content, lower(content), 1, unsubscribe_patterns[3])

(***************************************************************************)
(* urllib.parse: urlparse(url).query, parse_qs, unquote                    *)
(***************************************************************************)
\* the printable ASCII characters in code order, codes 32..126 (code 96, the
\* grave accent, cannot be written in a string here and has a name instead)
Ascii == Str(" !\"#$%&'()*+,-./0123456789:;<=>?@ABCDEFGHIJKLMNOPQRSTUVWXYZ[\\]^_")
         \o <<"grave">> \o Str("abcdefghijklmnopqrstuvwxyz{|}~")
ord(c) == 31 + CHOOSE n \in 1..Len(Ascii) : Ascii[n] = c
HexDigits == Str("0123456789abcdef")
IsHex(c) == \E n \in 1..16 : HexDigits[n] = lower_char(c)
HexVal(c) == (CHOOSE n \in 1..16 : HexDigits[n] = lower_char(c)) - 1

\* unquote: %XX decoded, for the codes of printable ASCII
RECURSIVE unquote(_)
unquote(s) ==
    IF s = <<>> THEN <<>>
    ELSE IF s[1] = "%" /\ Len(s) >= 3 /\ IsHex(s[2]) /\ IsHex(s[3])
            /\ 16 * HexVal(s[2]) + HexVal(s[3]) \in 32..126
         THEN <<Ascii[16 * HexVal(s[2]) + HexVal(s[3]) - 31]>> \o unquote(From(s, 4))
         ELSE <<s[1]>> \o unquote(Tail(s))

\* urlparse(url).query: after the first "?" of what precedes the first "#"
url_query(url) ==
    LET u == Split(url, "#")[1]
        q == FindIn(u, 1, {"?"})
    IN From(u, q + 1)

PlusToSpace(s) == [i \in 1..Len(s) |-> IF s[i] = "+" THEN " " ELSE s[i]]

\* parse_qsl(query): the (name, value) pairs kept, blank values dropped
parse_qsl(query) ==
    LET pairs == Split(query, "&")
        kept == SelectSeq(pairs, LAMBDA nv :
                    /\ FindIn(nv, 1, {"="}) <= Len(nv)
                    /\ FindIn(nv, 1, {"="}) < Len(nv))
    IN [n \in 1..Len(kept) |->
          LET eq == FindIn(kept[n], 1, {"="})
          IN [name |-> unquote(PlusToSpace(SubSeq(kept[n], 1, eq - 1))),
              value |-> unquote(PlusToSpace(From(kept[n], eq + 1)))]]

token_params == Words("token id uid key code hash verify")

\* None: every place the code reads an optional text it only tests its truth
\* (`if header`, `token if token else ...`), so None and "" are one value
None == <<>>

\* tokens[0] if tokens else None
url_token(url) ==
    LET qsl == parse_qsl(url_query(url))
        present == {p \in 1..Len(token_params) :
                       \E n \in 1..Len(qsl) : qsl[n].name = token_params[p]}
    IN IF present = {} THEN None
       ELSE LET p == CHOOSE x \in present : \A y \in present : x <= y
                n == CHOOSE x \in 1..Len(qsl) :
                        /\ qsl[x].name = token_params[p]
                        /\ \A y \in 1..(x - 1) : qsl[y].name # token_params[p]
            IN qsl[n].value

(***************************************************************************)
(* The text operations of UnsubscribeAutomation (src/unsubscriber.py)      *)
(***************************************************************************)
\* str.replace(old, new)
RECURSIVE replace(_, _, _)
replace(s, old, new) ==
    IF s = <<>> THEN <<>>
    ELSE IF At(s, 1, old) THEN new \o replace(From(s, Len(old) + 1), old, new)
    ELSE <<s[1]>> \o replace(Tail(s), old, new)

\* several replacements one after the other: pairs is a sequence of <<old, new>>
RECURSIVE replace_each(_, _)
replace_each(s, pairs) ==
    IF pairs = <<>> THEN s
    ELSE replace_each(replace(s, Head(pairs)[1], Head(pairs)[2]), Tail(pairs))

\* str.strip()
strip(s) ==
    SubSeq(s, FindNotIn(s, 1, SpaceChars),
           Len(s) - (FindNotIn([i \in 1..Len(s) |-> s[Len(s) + 1 - i]], 1, SpaceChars) - 1))

\* ' '.join(header.split()): blanks trimmed and runs of them made one blank
RECURSIVE join_split(_)
\* the word from a to b - 1, and what follows it
one_word(s, a, b) ==
    IF FindNotIn(s, b, SpaceChars) > Len(s) THEN SubSeq(s, a, b - 1)
    ELSE SubSeq(s, a, b - 1) \o <<" ">> \o join_split(From(s, b))
join_split(s) ==
    IF FindNotIn(s, 1, SpaceChars) > Len(s) THEN <<>>
    ELSE one_word(s, FindNotIn(s, 1, SpaceChars),
                  FindIn(s, FindNotIn(s, 1, SpaceChars), SpaceChars))

\* first position >= i at which pat occurs in s (Len(s) + 1 if none)
RECURSIVE find(_, _, _)
find(s, i, pat) ==
    IF i > Len(s) THEN Len(s) + 1
    ELSE IF At(s, i, pat) THEN i ELSE find(s, i + 1, pat)

\* re.findall(r'=\?us-ascii\?Q\?(.*?)\?=', header)
RECURSIVE findall_encoded(_, _)
\* the match that starts at i, its group ending before e, if there is one
encoded_at(header, i, e) ==
    IF e > Len(header) THEN findall_encoded(header, i + 1)
    ELSE <<SubSeq(header, i + 13, e - 1)>> \o findall_encoded(header, e + 2)
findall_encoded(header, i) ==
    IF i > Len(header) THEN <<>>
    ELSE IF At(header, i, Str("=?us-ascii?Q?"))
    THEN encoded_at(header, i, find(header, i + 13, Str("?=")))
    ELSE findall_encoded(header, i + 1)

\* the replacements decode_header_string makes, in its order
header_escapes == <<
    <<Str("=3D"), Str("=")>>, <<Str("=3F"), Str("?")>>, <<Str("=2E"), Str(".")>>,
    <<Str("=2F"), Str("/")>>, <<Str("=5F"), Str("_")>>, <<Str("=2D"), Str("-")>>,
    <<Str("=3C"), Str("<")>>, <<Str("=3E"), Str(">")>>, <<Str("=40"), Str("@")>> >>

\* `if parts:` and what follows, on the header with its blanks normalised
decode_parts(header, parts) ==
    IF parts # <<>> THEN unquote(replace_each(Join(parts), header_escapes))
    ELSE header

\* decode_header_string
decode_header_string(header) ==
    decode_parts(join_split(header), findall_encoded(join_split(header), 1))

\* the replacements clean_url makes, in its order
url_escapes == <<
    <<Str("=3A//"), Str("://")>>, <<Str("=3A"), Str(":")>>, <<Str("=2E"), Str(".")>>,
    <<Str("=2F"), Str("/")>>, <<Str("=5F"), Str("_")>>, <<Str("=2D"), Str("-")>>,
    <<Str("=3D"), Str("=")>>, <<Str("=26"), Str("&")>>, <<Str("=3F"), Str("?")>> >>

\* clean_url
clean_url(url) == unquote(replace_each(url, url_escapes))

\* re.findall(r'<([^>]+)>', decoded_header)
RECURSIVE findall_angle(_, _)
angle_at(header, i, e) ==
    IF e <= Len(header) /\ e > i + 1
    THEN <<SubSeq(header, i + 1, e - 1)>> \o findall_angle(header, e + 1)
    ELSE findall_angle(header, i + 1)
findall_angle(header, i) ==
    IF i > Len(header) THEN <<>>
    ELSE IF header[i] = "<" THEN angle_at(header, i, FindIn(header, i + 1, {">"}))
    ELSE findall_angle(header, i + 1)

\* the loop `for part in parts` of extract_unsubscribe_info over the cleaned
\* parts: [urls, mailtos]
RECURSIVE sort_parts(_, _)
sort_parts(clean_parts, found) ==
    IF clean_parts = <<>> THEN found
    ELSE IF At(Head(clean_parts), 1, Str("http"))
    THEN sort_parts(Tail(clean_parts),
                    [found EXCEPT !.urls = Append(@, Head(clean_parts))])
    ELSE IF At(Head(clean_parts), 1, Str("mailto:"))
    THEN sort_parts(Tail(clean_parts),
                    [found EXCEPT !.mailtos =
                        Append(@, replace(Head(clean_parts), Str("mailto:"), <<>>))])
    ELSE sort_parts(Tail(clean_parts), found)

\* self.clean_url(part).strip() for every part
clean_parts_of(parts) == [n \in 1..Len(parts) |-> strip(clean_url(parts[n]))]

\* extract_unsubscribe_info: (urls, mailtos)
unsub_extract_unsubscribe_info(header) ==
    sort_parts(clean_parts_of(findall_angle(decode_header_string(header), 1)),
               [urls |-> <<>>, mailtos |-> <<>>])

\* the params dict of parse_mailto, as the value of key ('' when the key is
\* absent; the last pair with the key wins)
RECURSIVE param_value(_, _, _)
param_of(pair, eq, key, default) ==
    IF eq <= Len(pair) /\ lower(SubSeq(pair, 1, eq - 1)) = key
    THEN [set |-> TRUE, value |-> unquote(From(pair, eq + 1))]
    ELSE default
param_value(param_pairs, key, default) ==
    IF param_pairs = <<>> THEN default
    ELSE param_value(Tail(param_pairs), key,
                     param_of(Head(param_pairs), FindIn(Head(param_pairs), 1, {"="}),
                              key, default))

\* the result of parse_mailto from the unquoted string and the place of its
\* first "?"
mailto_info(mailto_str, q) ==
    [email |-> SubSeq(mailto_str, 1, q - 1),
     subject |-> param_value(IF q < Len(mailto_str)
                             THEN Split(From(mailto_str, q + 1), "&") ELSE <<>>,
                             Str("subject"),
                             [set |-> FALSE, value |-> Str("Unsubscribe")]).value,
     body |-> param_value(IF q < Len(mailto_str)
                          THEN Split(From(mailto_str, q + 1), "&") ELSE <<>>,
                          Str("body"), [set |-> FALSE, value |-> Str("")]).value]

\* parse_mailto
parse_mailto(mailto_str) ==
    mailto_info(unquote(strip(mailto_str)), FindIn(unquote(strip(mailto_str)), 1, {"?"}))

(***************************************************************************)
(* The state                                                               *)
(***************************************************************************)
VARIABLES
    pc,             \* where main() of inboxscanner2.py is: "scan", "saved"
    total_emails,   \* len(email_ids): how many messages the search returned
    mailbox,        \* the messages fetched so far, as numbers into Messages
    domain_data,    \* EmailScanner.domain_data
    clock,          \* the time datetime.now() returns next
    report,         \* the rows save_to_file has written
    save_raised,    \* whether save_to_file ended by an exception
    url_calls,      \* history: the calls of _process_unsubscribe_url so far,
                    \* as [domain, url, timestamp]
    xpc,            \* where process_csv of unsubscriber.py is: "row", "http",
                    \* "mailto", "return", "done"
    csv_rows,       \* the rows of the CSV file, as numbers into Rows
    row_index,      \* the row the loop of process_csv is at
    processed_domains,  \* UnsubscribeAutomation.processed_domains
    urls,           \* unsubscribe_from_domain: the URLs not yet tried
    mailtos,        \* unsubscribe_from_domain: the mailto targets not yet tried
    success,        \* unsubscribe_from_domain: success
    net,            \* history: the calls that go to the network, in order
    from_input,     \* the sender _extract_domain_from_email is called with
    resolved,       \* what it returned for it, once called
    imap,           \* self.mail: "none" (no session), "open" (connected),
                    \* "selected" (a mailbox is selected), "logout"
    smtp,           \* self.smtp of the executor: "none", "open", "quit"
    connected       \* what connect() did: "no" (not called), "ok", "failed"

scanVars == <<pc, total_emails, mailbox, domain_data, clock, report, save_raised,
              url_calls>>
execVars == <<xpc, csv_rows, row_index, processed_domains, urls, mailtos, success, net>>
domainVars == <<from_input, resolved>>
sessionVars == <<imap, smtp, connected>>
vars == <<scanVars, execVars, domainVars, sessionVars>>

\* the scanner, the executor, the domain resolution not in use
ScanIdle ==
    /\ pc = "off" /\ total_emails = 0 /\ mailbox = <<>> /\ domain_data = <<>>
    /\ clock = 0 /\ report = <<>> /\ save_raised = FALSE /\ url_calls = {}
ExecIdle ==
    /\ xpc = "off" /\ csv_rows = <<>> /\ row_index = 0 /\ processed_domains = {}
    /\ urls = <<>> /\ mailtos = <<>> /\ success = FALSE /\ net = <<>>
DomainIdle == from_input = <<>> /\ resolved = [called |-> FALSE]
\* no session was opened
NoSession == imap = "none" /\ smtp = "none" /\ connected = "no"

(***************************************************************************)
(* Insertion-ordered dict (Python dict): a sequence of [key, value]        *)
(***************************************************************************)
DictKeys(d) == {d[n].key : n \in 1..Len(d)}
DictGet(d, k) == d[CHOOSE n \in 1..Len(d) : d[n].key = k].value
DictPut(d, k, v) ==
    IF k \in DictKeys(d)
    THEN [n \in 1..Len(d) |-> IF d[n].key = k THEN [key |-> k, value |-> v] ELSE d[n]]
    ELSE Append(d, [key |-> k, value |-> v])
RECURSIVE SumValues(_)
SumValues(d) == IF d = <<>> THEN 0 ELSE Head(d).value + SumValues(Tail(d))

(***************************************************************************)
(* EmailScanner.domain_data: defaultdict from domain to a record           *)
(***************************************************************************)
NewRecord == [senders |-> <<>>,
              categories |-> {},
              unsubscribe_data |-> <<>>,
              list_unsubscribe |-> FALSE,
              unsubscribe_urls |-> {},
              unsubscribe_mailtos |-> {},
              last_unsubscribe_header |-> None]

\* self.name_to_scan, for the name Netflix given on the command line
name_to_scan == lower(Str("Netflix"))

\* the senders the scanner holds for messages with the name in them: __init__
\* stores name_to_scan and nothing reads it, no attribute holds such senders
PersonalizationSet == {}

\* self.domain_data[domain], read
Rec(dd, domain) == IF domain \in DOMAIN dd THEN dd[domain] ELSE NewRecord
\* self.domain_data[domain] = r
Put(dd, domain, r) == [k \in DOMAIN dd \cup {domain} |-> IF k = domain THEN r ELSE dd[k]]

\* _decode_header on a str header: "" when the header is missing
decode_header(header_content) == IF header_content = None THEN Str("") ELSE header_content

\* a sender is noted, not counted
note_sender(dd, domain, from_header) ==
    Put(dd, domain, [Rec(dd, domain) EXCEPT !.senders = DictPut(@, from_header, 1)])

\* self.domain_data[domain]['senders'][from_header] += 1
count_sender(dd, domain, from_header) ==
    Put(dd, domain,
        [Rec(dd, domain) EXCEPT !.senders =
            DictPut(@, from_header,
                    (IF from_header \in DictKeys(@) THEN DictGet(@, from_header) ELSE 0) + 1)])

\* _process_sender (no caller passes a category)
process_sender(dd, from_header) ==
    count_sender(dd, extract_domain_from_email(from_header), from_header)

\* _store_unsubscribe_info
store_unsubscribe_info(dd, header, domain) ==
    Put(dd, domain,
        [Rec(dd, domain) EXCEPT
            !.unsubscribe_urls = @ \cup Range(findall_header_urls(header, 1)),
            !.unsubscribe_mailtos = @ \cup Range(findall_header_mailtos(header, 1))])

\* the header is stored and the flag is left as it is
store_only(dd, domain, unsubscribe_header) ==
    store_unsubscribe_info(dd, unsubscribe_header, domain)

\* the flag is set and the header is stored only when none is stored yet
keep_first_header(dd, domain, unsubscribe_header) ==
    store_unsubscribe_info(
        Put(dd, domain, [Rec(dd, domain) EXCEPT
                            !.list_unsubscribe = TRUE,
                            !.last_unsubscribe_header =
                                IF @ = None THEN unsubscribe_header ELSE @]),
        unsubscribe_header, domain)

\* the three statements under `if email_message.get('List-Unsubscribe')`
mark_list_unsubscribe(dd, domain, unsubscribe_header) ==
    store_unsubscribe_info(
        Put(dd, domain, [Rec(dd, domain) EXCEPT
                            !.list_unsubscribe = TRUE,
                            !.last_unsubscribe_header = unsubscribe_header]),
        unsubscribe_header, domain)

\* "Check for List-Unsubscribe header", the block scan_emails and
\* _process_content both run after _process_sender
note_list_unsubscribe(dd, sender, unsubscribe_header) ==
    IF unsubscribe_header = None THEN dd
    ELSE mark_list_unsubscribe(dd, extract_domain_from_email(sender), unsubscribe_header)

\* `if from_header:` with its body, in scan_emails and again in _process_content
process_from(dd, from_header, unsubscribe_header) ==
    IF from_header = Str("") THEN dd
    ELSE note_list_unsubscribe(process_sender(dd, from_header), from_header,
                               unsubscribe_header)

\* datetime comparison a > b raises TypeError between a naive and an aware one
Comparable(a, b) == a.aware = b.aware
Later(a, b) == a.t > b.t

\* the entry is stored or updated and the URL is not added to unsubscribe_urls
keep_unlisted(dd, domain, url, entry) ==
    IF url \notin DictKeys(Rec(dd, domain).unsubscribe_data)
    THEN Put(dd, domain, [Rec(dd, domain) EXCEPT
                             !.unsubscribe_data = DictPut(@, url, entry)])
    ELSE IF ~Comparable(entry.timestamp,
                        DictGet(Rec(dd, domain).unsubscribe_data, url).timestamp)
    THEN dd
    ELSE IF Later(entry.timestamp,
                  DictGet(Rec(dd, domain).unsubscribe_data, url).timestamp)
    THEN Put(dd, domain, [Rec(dd, domain) EXCEPT
                             !.unsubscribe_data = DictPut(@, url, entry)])
    ELSE dd

\* the entry of the latest call is stored, whatever its timestamp
keep_last(dd, domain, url, entry) ==
    Put(dd, domain, [Rec(dd, domain) EXCEPT
                        !.unsubscribe_data = DictPut(@, url, entry),
                        !.unsubscribe_urls = @ \cup {url}])

\* "Store or update the unsubscribe data" and "Add URL to unsubscribe_urls
\* set"; the TypeError of the comparison is caught by the method's own except,
\* which leaves the record as it was
keep_newest(dd, domain, url, entry) ==
    IF url \notin DictKeys(Rec(dd, domain).unsubscribe_data)
    THEN Put(dd, domain, [Rec(dd, domain) EXCEPT
                             !.unsubscribe_data = DictPut(@, url, entry),
                             !.unsubscribe_urls = @ \cup {url}])
    ELSE IF ~Comparable(entry.timestamp,
                        DictGet(Rec(dd, domain).unsubscribe_data, url).timestamp)
    THEN dd
    ELSE IF Later(entry.timestamp,
                  DictGet(Rec(dd, domain).unsubscribe_data, url).timestamp)
    THEN Put(dd, domain, [Rec(dd, domain) EXCEPT
                             !.unsubscribe_data = DictPut(@, url, entry),
                             !.unsubscribe_urls = @ \cup {url}])
    ELSE Put(dd, domain, [Rec(dd, domain) EXCEPT !.unsubscribe_urls = @ \cup {url}])

\* _process_unsubscribe_url
process_unsubscribe_url(dd, url, service, timestamp) ==
    keep_newest(dd, extract_domain_from_email(service), url,
                [timestamp |-> timestamp, token |-> url_token(url)])

RECURSIVE process_urls(_, _, _, _)
process_urls(dd, found_urls, service, timestamp) ==
    IF found_urls = <<>> THEN dd
    ELSE process_urls(process_unsubscribe_url(dd, Head(found_urls), service, timestamp),
                      Tail(found_urls), service, timestamp)

\* _extract_unsubscribe_info, given the timestamp its first line computed
extract_unsubscribe_info(dd, list_unsubscribe, content, service, timestamp) ==
    process_urls(dd, unsubscribe_url_calls(list_unsubscribe, content),
                 service, timestamp)

(***************************************************************************)
(* The messages a mailbox may hold.  A message is its From header (None    *)
(* when missing), its List-Unsubscribe header (None when missing), its     *)
(* Date header and the parts walk() yields.  A Date header is "aware" (a   *)
(* zone offset: parsedate_to_datetime gives an aware datetime), "naive"    *)
(* (zone -0000: a naive datetime), "absent" (datetime.now() is taken,      *)
(* which is naive) or "invalid" (parsedate_to_datetime raises).            *)
(***************************************************************************)
Date(kind, t) == [kind |-> kind, t |-> t]
Part(ctype, text) == [ctype |-> ctype, text |-> text]

Messages == <<
    [from |-> Str("a@news.example.com"), list_unsubscribe |-> None,
     date |-> Date("aware", 1),
     parts |-> <<Part("text/plain", Str("hello"))>>],
    [from |-> Str("b@news.example.com"), list_unsubscribe |-> None,
     date |-> Date("aware", 2),
     parts |-> <<Part("text/plain", Str("see you soon"))>>],
    [from |-> Str("deals@shop.example.com"),
     list_unsubscribe |-> Str("<mailto:remove@shop.example.com>"),
     date |-> Date("aware", 3),
     parts |-> <<Part("text/plain",
        Str("Please visit https://shop.example.com/unsubscribe?token=abc123 to opt out"))>>],
    [from |-> Str("Netflix <info@netflix>"),
     list_unsubscribe |-> Str("<https://n.io/u?id=5>, <mailto:off@n.io>"),
     date |-> Date("aware", 4),
     parts |-> <<Part("multipart/alternative", None),
                 Part("text/plain", Str("Netflix: https://n.io/unsubscribe?token=t1")),
                 Part("text/html", Str("<a href=\"https://n.io/unsubscribe?token=t1\">bye</a>"))>>],
    [from |-> Str("Netflix <info@netflix>"), list_unsubscribe |-> None,
     date |-> Date("aware", 6),
     parts |-> <<Part("text/plain", Str("Netflix: https://n.io/unsubscribe?token=t1"))>>],
    [from |-> Str("Netflix <info@netflix>"), list_unsubscribe |-> None,
     date |-> Date("absent", 0),
     parts |-> <<Part("text/plain",
        Str("netflix and hulu http://n.io/optout?id=2"))>>],
    [from |-> None, list_unsubscribe |-> None,
     date |-> Date("aware", 5),
     parts |-> <<Part("text/plain", Str("Facebook http://f.io/opt-out"))>>],
    [from |-> Str("c@zeta.io"), list_unsubscribe |-> None,
     date |-> Date("invalid", 0),
     parts |-> <<Part("text/plain", Str("Prime deal http://z.io/unsubscribe"))>>],
    [from |-> Str("Netflix <info@netflix>"),
     list_unsubscribe |-> Str("<mailto:stop@n.io>"),
     date |-> Date("naive", 7),
     parts |-> <<Part("text/plain",
        Str("Netflix: https://n.io/opt-out https://n.io/unsubscribe?token=t1"))>>] >>

\* the text parts _process_content looks at
IsText(part) == part.ctype \in {"text/plain", "text/html"} /\ part.text # None

\* every order in which `for service_info in found_services` may go through a
\* set: a Python set of tuples of str has no order the code can rely on
Orders(S) == {q \in [1..Cardinality(S) -> S] : Range(q) = S}
AllFound(msg) ==
    UNION {find_accounts(msg.parts[k].text) : k \in {k \in DOMAIN msg.parts : IsText(msg.parts[k])}}

\* the timestamp the first line of _extract_unsubscribe_info computes, when it
\* does not raise
timestamp_of(date, now) ==
    IF date.kind = "absent" THEN [t |-> now, aware |-> FALSE]
    ELSE [t |-> date.t, aware |-> date.kind = "aware"]

\* self.domain_data[domain]['categories'].add(category)
add_category(dd, domain, category) ==
    Put(dd, domain, [Rec(dd, domain) EXCEPT !.categories = @ \cup {category}])

\* the category goes to the record of the sender of the message
sender_service(dd, msg, content, service, category, timestamp) ==
    add_category(
        extract_unsubscribe_info(dd, msg.list_unsubscribe, content, service, timestamp),
        extract_domain_from_email(decode_header(msg.from)), category)

\* the body of `for service_info in found_services` when nothing raises
process_service(dd, msg, content, service, category, timestamp) ==
    add_category(
        extract_unsubscribe_info(dd, msg.list_unsubscribe, content, service, timestamp),
        extract_domain_from_email(service), category)

\* the calls of _process_unsubscribe_url one service of one part leads to
calls_of(list_unsubscribe, content, service, timestamp) ==
    {[domain |-> extract_domain_from_email(service), url |-> url, timestamp |-> timestamp] :
        url \in Range(unsubscribe_url_calls(list_unsubscribe, content))}

\* `for service_info in found_services`, for the services left of one part;
\* st is [dd, clock, raised, calls], and parsedate_to_datetime raising ends the
\* loop
RECURSIVE process_services(_, _, _, _)
process_services(st, msg, content, services) ==
    IF services = <<>> \/ st.raised THEN st
    ELSE IF msg.date.kind = "invalid" THEN [st EXCEPT !.raised = TRUE]
    ELSE process_services(
             [dd |-> process_service(st.dd, msg, content, Head(services)[1],
                                     Head(services)[2], timestamp_of(msg.date, st.clock)),
              clock |-> IF msg.date.kind = "absent" THEN st.clock + 1 ELSE st.clock,
              raised |-> FALSE,
              calls |-> st.calls \cup calls_of(msg.list_unsubscribe, content, Head(services)[1],
                                               timestamp_of(msg.date, st.clock))],
             msg, content, Tail(services))

\* the services of one part, in the order rank gives to all those of the message
services_of(content, rank) == SelectSeq(rank, LAMBDA x : x \in find_accounts(content))

\* `for part in email_message.walk()`; an exception ends the part, not the loop
RECURSIVE process_parts(_, _, _, _)
process_parts(st, msg, parts, rank) ==
    IF parts = <<>> THEN st
    ELSE IF ~IsText(Head(parts)) THEN process_parts(st, msg, Tail(parts), rank)
    ELSE process_parts(
             process_services([st EXCEPT !.raised = FALSE], msg, Head(parts).text,
                              services_of(Head(parts).text, rank)),
             msg, Tail(parts), rank)

\* _process_content
process_content(st, msg, rank) ==
    process_parts(
        [st EXCEPT !.dd = process_from(@, decode_header(msg.from), msg.list_unsubscribe)],
        msg, msg.parts, rank)

\* the body of the loop of scan_emails for one fetched message
scan_one(st, msg, rank) ==
    process_content(
        [st EXCEPT !.dd = process_from(@, decode_header(msg.from), msg.list_unsubscribe)],
        msg, rank)

(***************************************************************************)
(* EmailScanner.save_to_file                                               *)
(***************************************************************************)
\* str order (code points)
RECURSIVE StrLess(_, _)
StrLess(a, b) ==
    IF b = <<>> THEN FALSE
    ELSE IF a = <<>> THEN TRUE
    ELSE IF a[1] = b[1] THEN StrLess(Tail(a), Tail(b))
    ELSE ord(a[1]) < ord(b[1])

least_str(S) == CHOOSE x \in S : \A y \in S : x = y \/ StrLess(x, y)
\* sorted() of a set of str
RECURSIVE sorted(_)
sorted(S) ==
    IF S = {} THEN <<>>
    ELSE <<least_str(S)>> \o sorted(S \ {least_str(S)})

\* the first item, whatever the timestamps
first_item(best, items) == [raised |-> FALSE, item |-> best]

\* max(items, key=timestamp): the first greatest one; comparing a naive with
\* an aware datetime raises TypeError
RECURSIVE max_by_timestamp(_, _)
max_by_timestamp(best, items) ==
    IF items = <<>> THEN [raised |-> FALSE, item |-> best]
    ELSE IF ~Comparable(Head(items).value.timestamp, best.value.timestamp)
    THEN [raised |-> TRUE, item |-> best]
    ELSE IF Later(Head(items).value.timestamp, best.value.timestamp)
    THEN max_by_timestamp(Head(items), Tail(items))
    ELSE max_by_timestamp(best, Tail(items))

\* str(datetime), kept as the pair that identifies it
str_datetime(ts) == <<ts.t, ts.aware>>

MinReportedEmails == 2

\* whether the loop of save_to_file skips the domain
skip_domain(total) == total < MinReportedEmails

\* the row of one domain
report_row(domain, data, most_recent) ==
    [Delete |-> Str(""),
     ListUnsubscribe |-> IF data.list_unsubscribe THEN Str("Yes") ELSE Str("No"),
     Domain |-> domain,
     Categories |-> IF data.categories # {} THEN data.categories ELSE {"Uncategorized"},
     UniqueSenders |-> Len(data.senders),
     TotalEmails |-> SumValues(data.senders),
     SenderList |-> [n \in 1..Len(data.senders) |-> data.senders[n].key],
     UnsubscribeUrls |-> data.unsubscribe_urls,
     UnsubscribeMailtos |-> data.unsubscribe_mailtos,
     UnsubscribeHeader |-> data.last_unsubscribe_header,
     Token |-> IF data.unsubscribe_data = <<>> THEN Str("N/A")
               ELSE IF most_recent.value.token # None THEN most_recent.value.token
               ELSE Str("No token"),
     LastUpdated |-> IF data.unsubscribe_data = <<>> THEN Str("N/A")
                     ELSE str_datetime(most_recent.value.timestamp)]

\* the loop over sorted(self.domain_data.items()): the rows written, and
\* whether max() raised, which ends save_to_file with the rows written so far
RECURSIVE write_rows(_, _, _)
\* the row of one reported domain, m being what max() gave
write_row(dd, domains, rows, m) ==
    IF m.raised THEN [rows |-> rows, raised |-> TRUE]
    ELSE write_rows(dd, Tail(domains),
                    Append(rows, report_row(Head(domains), dd[Head(domains)], m.item)))
write_rows(dd, domains, rows) ==
    IF domains = <<>> THEN [rows |-> rows, raised |-> FALSE]
    ELSE IF skip_domain(SumValues(dd[Head(domains)].senders))
    THEN write_rows(dd, Tail(domains), rows)
    ELSE IF dd[Head(domains)].unsubscribe_data = <<>>
    THEN write_row(dd, domains, rows, [raised |-> FALSE, item |-> None])
    ELSE write_row(dd, domains, rows,
                   max_by_timestamp(Head(dd[Head(domains)].unsubscribe_data),
                                    Tail(dd[Head(domains)].unsubscribe_data)))

save_to_file(dd) == write_rows(dd, sorted(DOMAIN dd), <<>>)

(***************************************************************************)
(* The scanner: main() of inboxscanner2.py after connect()                 *)
(***************************************************************************)
MaxEmails == 2
FirstNow == 10

InitScan ==
    /\ pc = "scan"
    /\ total_emails \in 0..MaxEmails
    /\ mailbox = <<>>
    /\ domain_data = <<>>
    /\ clock = FirstNow
    /\ report = <<>>
    /\ save_raised = FALSE
    /\ url_calls = {}
    /\ imap = "selected"
    /\ smtp = "none"
    /\ connected = "ok"
    /\ ExecIdle
    /\ DomainIdle

\* the state after message n is processed with result st
Scanned(n, st) ==
    /\ mailbox' = Append(mailbox, n)
    /\ domain_data' = st.dd
    /\ clock' = st.clock
    /\ url_calls' = st.calls

\* one turn of the loop of scan_emails: fetch the next message and process it
ScanMessage ==
    /\ pc = "scan"
    /\ Len(mailbox) < total_emails
    /\ \E n \in 1..Len(Messages) : \E rank \in Orders(AllFound(Messages[n])) :
          Scanned(n, scan_one([dd |-> domain_data, clock |-> clock, raised |-> FALSE,
                               calls |-> url_calls],
                              Messages[n], rank))
    /\ UNCHANGED <<pc, total_emails, report, save_raised, execVars, domainVars,
                   sessionVars>>

\* the state after save_to_file ended with result out
Saved(out) ==
    /\ report' = out.rows
    /\ save_raised' = out.raised

\* the loop is over: save_to_file
SaveToFile ==
    /\ pc = "scan"
    /\ Len(mailbox) = total_emails
    /\ pc' = "saved"
    /\ Saved(save_to_file(domain_data))
    /\ UNCHANGED <<total_emails, mailbox, domain_data, clock, url_calls, execVars,
                   domainVars, sessionVars>>

NextScan == ScanMessage \/ SaveToFile

Spec == InitScan /\ [][NextScan]_vars

(***************************************************************************)
(* The executor: UnsubscribeAutomation.process_csv after connect()         *)
(***************************************************************************)
\* the value DictReader gives a field the row is too short for (None): a
\* value no text equals
NoField == <<"None">>

CsvRow(delete, list_unsubscribe, domain) ==
    [Delete |-> delete, ListUnsubscribe |-> list_unsubscribe, Domain |-> domain]

\* the rows a CSV file may hold
Rows == <<
    CsvRow(Str("yes"), Str("Yes"), Str("n.io")),
    CsvRow(Str(" Yes "), Str("YES"), Str("m.io")),
    CsvRow(Str("yes"), Str("No"), Str("n.io")),
    CsvRow(Str(""), Str("Yes"), Str("n.io")),
    CsvRow(Str("YES"), Str("yes"), Str("q.io")),
    CsvRow(Str("yes"), Str("yes"), Str("p.io")),
    CsvRow(Str("yes"), NoField, NoField),
    CsvRow(Str("yes"), Str("yes"), NoField) >>

\* the inbox the executor searches, oldest message first
Inbox == <<
    [from |-> Str("News <news@n.io>"), list_unsubscribe |-> Str("<http://n.io/old>")],
    [from |-> Str("Shop <deals@m.io>"),
     list_unsubscribe |-> Str("<mailto:leave@m.io?subject=stop>")],
    [from |-> Str("News <news@N.IO>"),
     list_unsubscribe |-> Str("<https://n.io/u?id=1>, <http://n.io/v>, <mailto:off@n.io>")],
    [from |-> Str("p@p.io"),
     list_unsubscribe |-> Str("=?us-ascii?Q?<https=3A//p=2Eio/u=3Fid=3D1>?=")],
    [from |-> Str("news@n.io"), list_unsubscribe |-> None] >>

\* return None, None
NoInfo == [urls |-> <<>>, mailtos |-> <<>>]

\* the search goes from the oldest message up: the oldest of the first k
\* messages whose From holds the domain and that has a List-Unsubscribe header
oldest_with_header(domain, k) ==
    IF \A j \in 1..k : ~(/\ Contains(lower(Inbox[j].from), lower(domain))
                         /\ Inbox[j].list_unsubscribe # None)
    THEN 0
    ELSE Min({j \in 1..k : /\ Contains(lower(Inbox[j].from), lower(domain))
                           /\ Inbox[j].list_unsubscribe # None})

\* `for email_id in reversed(email_ids)`, from message k down: the first
\* message whose From holds the domain and that has a List-Unsubscribe header
\* (0 if none)
RECURSIVE newest_with_header(_, _)
newest_with_header(domain, k) ==
    IF k = 0 THEN 0
    ELSE IF Contains(lower(Inbox[k].from), lower(domain))
            /\ Inbox[k].list_unsubscribe # None
    THEN k
    ELSE newest_with_header(domain, k - 1)

\* what find_unsubscribe_info returns when message k is the one found
info_of(k) ==
    IF k = 0 THEN NoInfo ELSE unsub_extract_unsubscribe_info(Inbox[k].list_unsubscribe)

\* find_unsubscribe_info when the search answers; domain.lower() raises for a
\* domain that is None, at every message, and the loop goes on to the end
find_unsubscribe_info(domain) ==
    IF domain = NoField THEN NoInfo
    ELSE info_of(newest_with_header(domain, Len(Inbox)))

\* row[field].strip().lower() == 'yes'
is_yes(field) == lower(strip(field)) = Str("yes")

\* the condition of the `if` of process_csv raises AttributeError: it reads a
\* field that is None (`and` does not read what follows a false operand)
condition_raises(row) ==
    \/ row.Delete = NoField
    \/ is_yes(row.Delete) /\ row.ListUnsubscribe = NoField

\* the `if` of process_csv without its second operand
row_deleted(row, processed) ==
    /\ is_yes(row.Delete)
    /\ row.Domain \notin processed

\* the `if` of process_csv, when it does not raise
row_selected(row, processed) ==
    /\ is_yes(row.Delete)
    /\ is_yes(row.ListUnsubscribe)
    /\ row.Domain \notin processed

\* the mailto targets are never tried
no_mailtos(ok, targets) == FALSE

\* `if mailtos:`
any_mailtos(ok, targets) == targets # <<>>

\* `if not success and mailtos:`
try_mailtos(ok, targets) == ~ok /\ targets # <<>>

\* send_unsubscribe_email: self.smtp.send_message(msg, timeout=30) raises
\* TypeError, SMTP.send_message taking no timeout, before anything is sent;
\* the except returns False
send_unsubscribe_email(info) == FALSE

\* self.processed_domains when every attempted domain is added
remember_all(processed, domain, ok) == processed \cup {domain}

\* self.processed_domains when no domain is ever added
forget(processed, domain, ok) == processed

\* self.processed_domains after unsubscribe_from_domain returned ok for domain
remember(processed, domain, ok) == IF ok THEN processed \cup {domain} ELSE processed

\* what requests.get may do: answer 200, answer another status, raise
HttpOutcomes == {"200", "404", "raised"}

\* no answer ends the loop over the URLs
never_done(outcome) == FALSE

\* `if response.status_code == 200:`, which sets success and breaks
get_done(outcome) == outcome = "200"

\* success is set whatever the send returned
mail_tried(ok, sent) == TRUE

\* success after `if mailto_info and self.send_unsubscribe_email(mailto_info):`
mail_success(ok, sent) == ok \/ sent

MaxRows == 2

\* the rows of the file at csv_path: process_csv opens it with mode 'r' and
\* nothing writes it, so at every point of the run it holds the rows it held
\* at the start
csv_file(rows) == [n \in 1..Len(rows) |-> Rows[rows[n]]]

InitExec ==
    /\ xpc = "row"
    /\ csv_rows \in UNION {[1..n -> 1..Len(Rows)] : n \in 0..MaxRows}
    /\ row_index = 1
    /\ processed_domains = {}
    /\ urls = <<>>
    /\ mailtos = <<>>
    /\ success = FALSE
    /\ net = <<>>
    /\ imap = "open"
    /\ smtp = "open"
    /\ connected = "ok"
    /\ ScanIdle
    /\ DomainIdle

\* the row the loop is at
Row == Rows[csv_rows[row_index]]

\* the condition of the row raises: the except of process_csv ends the loop
RowRaises ==
    /\ xpc = "row" /\ row_index <= Len(csv_rows)
    /\ condition_raises(Row)
    /\ xpc' = "done"
    /\ UNCHANGED <<csv_rows, row_index, processed_domains, urls, mailtos, success, net>>
    /\ UNCHANGED <<scanVars, domainVars, sessionVars>>

\* the row is not selected: the loop goes to the next row
SkipRow ==
    /\ xpc = "row" /\ row_index <= Len(csv_rows)
    /\ ~condition_raises(Row)
    /\ ~row_selected(Row, processed_domains)
    /\ row_index' = row_index + 1
    /\ UNCHANGED <<xpc, csv_rows, processed_domains, urls, mailtos, success, net>>
    /\ UNCHANGED <<scanVars, domainVars, sessionVars>>

\* unsubscribe_from_domain up to its first `if`, info being what
\* find_unsubscribe_info returned
Attempt(domain, info) ==
    /\ net' = Append(net, [call |-> "search", domain |-> domain, found |-> info])
    /\ urls' = info.urls
    /\ mailtos' = info.mailtos
    /\ success' = FALSE
    /\ xpc' = "http"

\* the states of the session after find_unsubscribe_info: select('inbox') was
\* done when the search answered; when not, select or search raised
selected_after(session, answered) ==
    IF answered THEN {"selected"} ELSE {session, "selected"}

\* the row is selected: unsubscribe_from_domain is called and searches the
\* inbox; a search that raises gives None, None
StartAttempt ==
    /\ xpc = "row" /\ row_index <= Len(csv_rows)
    /\ ~condition_raises(Row)
    /\ row_selected(Row, processed_domains)
    /\ \E answered \in BOOLEAN :
          /\ Attempt(Row.Domain,
                     IF answered THEN find_unsubscribe_info(Row.Domain) ELSE NoInfo)
          /\ imap' \in selected_after(imap, answered)
    /\ UNCHANGED <<csv_rows, row_index, processed_domains>>
    /\ UNCHANGED <<scanVars, domainVars, smtp, connected>>

\* one turn of `for url in urls`
HttpGet ==
    /\ xpc = "http" /\ urls # <<>>
    /\ \E outcome \in HttpOutcomes :
          /\ net' = Append(net, [call |-> "get", url |-> Head(urls), outcome |-> outcome])
          /\ IF get_done(outcome)
             THEN /\ success' = TRUE
                  /\ urls' = urls
                  /\ xpc' = IF try_mailtos(TRUE, mailtos) THEN "mailto" ELSE "return"
             ELSE /\ urls' = Tail(urls)
                  /\ UNCHANGED <<success, xpc>>
    /\ UNCHANGED <<csv_rows, row_index, processed_domains, mailtos>>
    /\ UNCHANGED <<scanVars, domainVars, sessionVars>>

\* the loop over the URLs is over, or there was no URL
HttpOver ==
    /\ xpc = "http" /\ urls = <<>>
    /\ xpc' = IF try_mailtos(success, mailtos) THEN "mailto" ELSE "return"
    /\ UNCHANGED <<csv_rows, row_index, processed_domains, urls, mailtos, success, net>>
    /\ UNCHANGED <<scanVars, domainVars, sessionVars>>

\* the mail of one turn of `for mailto in mailtos`, sent being what
\* send_unsubscribe_email returned
Mailed(info, sent) ==
    /\ net' = Append(net, [call |-> "send_message", to |-> info.email,
                           sent |-> sent])
    /\ success' = mail_success(success, sent)
    /\ IF sent THEN xpc' = "return" /\ mailtos' = mailtos
       ELSE xpc' = xpc /\ mailtos' = Tail(mailtos)

\* one turn of `for mailto in mailtos`
MailTo ==
    /\ xpc = "mailto" /\ mailtos # <<>>
    /\ Mailed(parse_mailto(Head(mailtos)),
              send_unsubscribe_email(parse_mailto(Head(mailtos))))
    /\ UNCHANGED <<csv_rows, row_index, processed_domains, urls>>
    /\ UNCHANGED <<scanVars, domainVars, sessionVars>>

\* the loop over the mailto targets is over
MailOver ==
    /\ xpc = "mailto" /\ mailtos = <<>>
    /\ xpc' = "return"
    /\ UNCHANGED <<csv_rows, row_index, processed_domains, urls, mailtos, success, net>>
    /\ UNCHANGED <<scanVars, domainVars, sessionVars>>

\* unsubscribe_from_domain returns success to process_csv
Return ==
    /\ xpc = "return"
    /\ processed_domains' = remember(processed_domains, Row.Domain, success)
    /\ row_index' = row_index + 1
    /\ xpc' = "row"
    /\ UNCHANGED <<csv_rows, urls, mailtos, success, net>>
    /\ UNCHANGED <<scanVars, domainVars, sessionVars>>

\* no row is left
EndCsv ==
    /\ xpc = "row" /\ row_index > Len(csv_rows)
    /\ xpc' = "done"
    /\ UNCHANGED <<csv_rows, row_index, processed_domains, urls, mailtos, success, net>>
    /\ UNCHANGED <<scanVars, domainVars, sessionVars>>

NextExec ==
    \/ RowRaises \/ SkipRow \/ StartAttempt
    \/ HttpGet \/ HttpOver \/ MailTo \/ MailOver
    \/ Return \/ EndCsv

SpecUnsub == InitExec /\ [][NextExec]_vars

(***************************************************************************)
(* _extract_domain_from_email on sender strings with an address in them    *)
(***************************************************************************)
\* what a sender string is made of
DisplayNames == {Str(""), Str("John Doe"), Str("Support Team"),
                 Str("foo@bar.com"), Str("\"Doe, John\""), Str("www.acme.com")}
LocalParts == {Str("john"), Str("j.doe"), Str("\"a@b\""), Str("no-reply")}
AddrDomains == {Str("example.com"), Str("Example.COM"), Str("news.example.com"),
                Str("netflix"), Str("b.io")}
Forms == {"bare", "angle", "angle, no blank"}

\* the sender string: local@domain alone, or after a display name in < >
sender_text(s) ==
    IF s.form = "bare" \/ s.display = Str("") THEN s.local \o Str("@") \o s.domain
    ELSE s.display \o (IF s.form = "angle" THEN Str(" <") ELSE Str("<"))
         \o s.local \o Str("@") \o s.domain \o Str(">")

InitDomain ==
    /\ from_input \in [display : DisplayNames, local : LocalParts,
                       domain : AddrDomains, form : Forms]
    /\ resolved = [called |-> FALSE]
    /\ ScanIdle
    /\ ExecIdle
    /\ NoSession

\* the call of _extract_domain_from_email
ExtractDomain ==
    /\ ~resolved.called
    /\ resolved' = [called |-> TRUE,
                    domain |-> extract_domain_from_email(sender_text(from_input)),
                    strategy |-> DomainStrategy(sender_text(from_input))]
    /\ UNCHANGED <<from_input, scanVars, execVars, sessionVars>>

NextDomain == ExtractDomain

SpecDomain == InitDomain /\ [][NextDomain]_vars

(***************************************************************************)
(* The runs: main() of inboxscanner2.py and main() of unsubscriber.py      *)
(***************************************************************************)
\* what EmailScanner.connect may meet: IMAP4_SSL raises, login raises, neither
ScannerConnects == {"refused", "login failed", "connected"}

\* connect() returns True whatever happened
connect_true(outcome) == TRUE

\* what EmailScanner.connect returns
scanner_connect(outcome) == outcome = "connected"

\* what UnsubscribeAutomation.connect may meet: IMAP4_SSL raises, the IMAP
\* login raises, SMTP() raises, starttls or the SMTP login raises, none raises
ExecConnects == {"imap refused", "imap login failed", "smtp refused",
                 "smtp login failed", "connected"}

\* what UnsubscribeAutomation.connect returns (None after its except)
exec_connect(outcome) == outcome = "connected"

\* what scan_emails may meet before its loop: select raises, search raises,
\* the search answers
SearchOutcomes == {"select raised", "search raised", "found"}

InitMain ==
    /\ NoSession
    /\ DomainIdle
    /\ \/ /\ pc = "start" /\ total_emails = 0 /\ mailbox = <<>> /\ domain_data = <<>>
          /\ clock = FirstNow /\ report = <<>> /\ save_raised = FALSE /\ url_calls = {}
          /\ ExecIdle
       \/ /\ xpc = "start"
          /\ csv_rows \in UNION {[1..n -> 1..Len(Rows)] : n \in 0..MaxRows}
          /\ row_index = 1 /\ processed_domains = {}
          /\ urls = <<>> /\ mailtos = <<>> /\ success = FALSE /\ net = <<>>
          /\ ScanIdle

\* main of inboxscanner2.py: `if scanner.connect():`
ConnectScanner ==
    /\ pc = "start"
    /\ \E outcome \in ScannerConnects :
          /\ imap' = IF outcome = "refused" THEN "none" ELSE "open"
          /\ connected' = IF outcome = "connected" THEN "ok" ELSE "failed"
          /\ pc' = IF scanner_connect(outcome) THEN "search" ELSE "failed"
    /\ UNCHANGED <<total_emails, mailbox, domain_data, clock, report, save_raised,
                   url_calls, smtp, execVars, domainVars>>

\* scan_emails up to its loop; what raises there ends main
SearchInbox ==
    /\ pc = "search"
    /\ \E outcome \in SearchOutcomes :
          /\ imap' = IF outcome = "select raised" THEN imap ELSE "selected"
          /\ IF outcome = "found"
             THEN pc' = "scan" /\ total_emails' \in 0..MaxEmails
             ELSE pc' = "raised" /\ total_emails' = total_emails
    /\ UNCHANGED <<mailbox, domain_data, clock, report, save_raised, url_calls, smtp,
                   connected, execVars, domainVars>>

\* save_to_file returned: scanner.close() and the end of main
CloseScanner ==
    /\ pc = "saved" /\ ~save_raised
    /\ imap' = "logout"
    /\ pc' = "exit"
    /\ UNCHANGED <<total_emails, mailbox, domain_data, clock, report, save_raised,
                   url_calls, smtp, connected, execVars, domainVars>>

\* save_to_file raised: nothing in main catches it
SaveRaised ==
    /\ pc = "saved" /\ save_raised
    /\ pc' = "raised"
    /\ UNCHANGED <<total_emails, mailbox, domain_data, clock, report, save_raised,
                   url_calls, sessionVars, execVars, domainVars>>

\* main of unsubscriber.py: `if automation.connect():`
ConnectExec ==
    /\ xpc = "start"
    /\ \E outcome \in ExecConnects :
          /\ imap' = IF outcome = "imap refused" THEN "none" ELSE "open"
          /\ smtp' = IF outcome \in {"smtp login failed", "connected"} THEN "open"
                     ELSE "none"
          /\ connected' = IF outcome = "connected" THEN "ok" ELSE "failed"
          /\ xpc' = IF exec_connect(outcome) THEN "row" ELSE "failed"
    /\ UNCHANGED <<csv_rows, row_index, processed_domains, urls, mailtos, success, net,
                   scanVars, domainVars>>

\* close(): self.mail.close() raises when no mailbox is selected and the bare
\* except leaves logout() out; self.smtp.quit()
CloseExec ==
    /\ xpc = "done"
    /\ imap' = IF imap = "selected" THEN "logout" ELSE imap
    /\ smtp' = IF smtp = "open" THEN "quit" ELSE smtp
    /\ xpc' = "exit"
    /\ UNCHANGED <<csv_rows, row_index, processed_domains, urls, mailtos, success, net,
                   connected, scanVars, domainVars>>

NextMain ==
    \/ ConnectScanner \/ SearchInbox \/ ScanMessage \/ SaveToFile
    \/ CloseScanner \/ SaveRaised
    \/ ConnectExec \/ NextExec \/ CloseExec

SpecMain == InitMain /\ [][NextMain]_vars

(***************************************************************************)
(* The scanner on senders that differ in letter case                       *)
(***************************************************************************)
\* messages whose From headers come in pairs that differ only in letter
\* case: an address, a display name with "@" in a comment, a site name, a
\* plain name
CasedSenders == <<Str("a@news.example.com"), Str("A@News.Example.COM"),
                  Str("Team (@acme)"), Str("TEAM (@ACME)"),
                  Str("www.acme.com"), Str("WWW.ACME.COM"),
                  Str("Acme Support"), Str("ACME SUPPORT")>>
CasedMessages ==
    [n \in 1..Len(CasedSenders) |->
        [from |-> CasedSenders[n], list_unsubscribe |-> None,
         date |-> Date("aware", 1),
         parts |-> <<Part("text/plain", Str("hello"))>>]]

\* one turn of the loop of scan_emails on a mailbox of these messages; mailbox
\* holds their numbers
ScanCased ==
    /\ pc = "scan"
    /\ Len(mailbox) < total_emails
    /\ \E n \in 1..Len(CasedMessages) : \E rank \in Orders(AllFound(CasedMessages[n])) :
          Scanned(n, scan_one([dd |-> domain_data, clock |-> clock, raised |-> FALSE,
                               calls |-> url_calls],
                              CasedMessages[n], rank))
    /\ UNCHANGED <<pc, total_emails, report, save_raised, execVars, domainVars,
                   sessionVars>>

NextKeys == ScanCased \/ SaveToFile

SpecKeys == InitScan /\ [][NextKeys]_vars

(***************************************************************************)
(* Properties of the scanner                                               *)
(***************************************************************************)
\* the sender a scanned message resolves to, None without a From header
SenderDomain(n) ==
    IF Messages[n].from = None THEN None
    ELSE extract_domain_from_email(decode_header(Messages[n].from))
\* the positions of the mailbox whose message's sender resolves to domain
ScannedFrom(domain) == {k \in 1..Len(mailbox) : SenderDomain(mailbox[k]) = domain}
\* 'Total Emails' of a domain: the sum of its sender counts
TotalEmails(domain) == SumValues(Rec(domain_data, domain).senders)
\* the rows of the report that are about domain
RowsOf(domain) == {n \in 1..Len(report) : report[n].Domain = domain}

\* C1: every scanned message with a From header counts as one sender
\* occurrence of its domain, so a domain's total is the number of messages
\* scanned from it; and the two messages from a@news.example.com and
\* b@news.example.com give a row with 2 unique senders and 2 total emails.
C1_OneOccurrencePerMessage ==
    /\ \A n \in 1..Len(Messages) :
          SenderDomain(n) # None =>
              TotalEmails(SenderDomain(n)) = Cardinality(ScannedFrom(SenderDomain(n)))
    /\ (pc = "saved" /\ mailbox \in {<<1, 2>>, <<2, 1>>}) =>
          \E n \in RowsOf(Str("news.example.com")) :
              report[n].UniqueSenders = 2 /\ report[n].TotalEmails = 2

\* C2: once save_to_file is over, a domain with fewer than 2 sender
\* occurrences has no row and a domain with 2 or more has exactly one.
C2_RowIffTwoOrMore ==
    pc = "saved" =>
        \A d \in DOMAIN domain_data :
            Cardinality(RowsOf(d)) = IF TotalEmails(d) >= 2 THEN 1 ELSE 0

\* the unsubscribe URLs of a message: those of its List-Unsubscribe header and
\* those of its body texts
UnsubscribeUrlsOf(msg) ==
    Range(findall_header_urls(msg.list_unsubscribe, 1))
    \cup UNION {Range(unsubscribe_url_calls(msg.list_unsubscribe, msg.parts[k].text)) :
                   k \in {k \in DOMAIN msg.parts : IsText(msg.parts[k])}}
\* the unsubscribe candidates of a domain: URL and token
Candidates(domain) ==
    {<<e.key, e.value.token>> : e \in Range(Rec(domain_data, domain).unsubscribe_data)}
\* the domains of the senders of the scanned messages that carry url
CarriersOf(url) ==
    {SenderDomain(mailbox[k]) :
        k \in {k \in 1..Len(mailbox) : url \in UnsubscribeUrlsOf(Messages[mailbox[k]])}}

\* C3: every unsubscribe URL of the header or the body of a scanned message
\* is among the candidates of the domain of the message's sender, with its
\* token, whatever keywords the body has, and among the candidates of no
\* domain that sent no message carrying it.
C3_UrlsUnderSenderDomain ==
    \A k \in 1..Len(mailbox) :
        SenderDomain(mailbox[k]) # None =>
            \A url \in UnsubscribeUrlsOf(Messages[mailbox[k]]) :
                /\ <<url, url_token(url)>> \in Candidates(SenderDomain(mailbox[k]))
                /\ \A d \in DOMAIN domain_data :
                      <<url, url_token(url)>> \in Candidates(d) => d \in CarriersOf(url)

\* the identifiers a prior run is taken to have left: one domain, one sender
PreviouslySeenSet == {Str("news.example.com"), Str("Netflix <info@netflix>")}
\* the skip policy applies to the message
PreviouslySeen(n) ==
    /\ Messages[n].from # None
    /\ \/ decode_header(Messages[n].from) \in PreviouslySeenSet
       \/ SenderDomain(n) \in PreviouslySeenSet

\* C7: scanning a message whose sender or sender's domain is in the
\* PreviouslySeenSet leaves every aggregate of every domain record as it was.
C7_SkipLeavesAggregates ==
    [][(mailbox' # mailbox /\ PreviouslySeen(mailbox'[Len(mailbox')]))
          => domain_data' = domain_data]_vars

\* the calls of _process_unsubscribe_url made for url under domain
CallsFor(domain, url) == {c \in url_calls : c.domain = domain /\ c.url = url}
\* the timestamps of the calls can be ordered
Ordered(calls) == \A c1, c2 \in calls : Comparable(c1.timestamp, c2.timestamp)
\* the entry stored for url under domain
Stored(domain, url) == DictGet(domain_data[domain].unsubscribe_data, url)

SetsOf(dd) ==
    [d \in DOMAIN dd |-> [categories |-> dd[d].categories,
                          unsubscribe_urls |-> dd[d].unsubscribe_urls,
                          unsubscribe_mailtos |-> dd[d].unsubscribe_mailtos]]
\* the sender counts after are twice those before
Doubled(before, after) ==
    /\ DOMAIN after = DOMAIN before
    /\ \A d \in DOMAIN before :
          after[d].senders =
              [n \in 1..Len(before[d].senders) |->
                  [key |-> before[d].senders[n].key,
                   value |-> 2 * before[d].senders[n].value]]
\* the step scans the message the step before it scanned
SameAgain == mailbox # <<>> /\ mailbox' = Append(mailbox, mailbox[Len(mailbox)])

\* C9: processing the same message a second time leaves the category set, the
\* unsubscribe-URL set and the unsubscribe-mailto set of every domain as they
\* were, and doubles the sender counts the message had contributed.
C9_SetsIdempotentCountsDouble ==
    [][SameAgain =>
          /\ SetsOf(domain_data') = SetsOf(domain_data)
          /\ Len(mailbox) = 1 => Doubled(domain_data, domain_data')]_vars

\* message 4, with its header URL, mailto, body URL and category, was
\* processed twice
C9_ProcessedTwice ==
    /\ mailbox = <<4, 4>>
    /\ TotalEmails(Str("netflix")) = 4
    /\ domain_data[Str("netflix")].unsubscribe_urls # {}
    /\ domain_data[Str("netflix")].unsubscribe_mailtos # {}
    /\ domain_data[Str("netflix")].categories # {}


\* processing the message raises: parsedate_to_datetime refuses its Date header
\* in _extract_unsubscribe_info, which a text part with a service word calls
RaisesIn(msg) == msg.date.kind = "invalid" /\ AllFound(msg) # {}

\* C11: a message whose processing raises is skipped and counted in no
\* aggregate: the step that scans it leaves every record of domain_data as it
\* was before the message
C11_FailedMessageNotCounted ==
    [][Len(mailbox') = Len(mailbox) + 1 /\ RaisesIn(Messages[mailbox'[Len(mailbox')]])
          => domain_data' = domain_data]_vars

\* the name is in a text part of the message, in any case (the messages of the
\* model have no Subject header)
ContainsName(msg) ==
    \E k \in DOMAIN msg.parts :
       IsText(msg.parts[k]) /\ Contains(lower(msg.parts[k].text), name_to_scan)

\* C15: the sender header of every scanned message that has the name in it is
\* in the PersonalizationSet
C15_NameAddsSender ==
    \A n \in 1..Len(mailbox) :
       ContainsName(Messages[mailbox[n]]) /\ Messages[mailbox[n]].from # None
          => Messages[mailbox[n]].from \in PersonalizationSet

\* the (service, category) pairs found in the text parts of the messages
\* scanned so far whose processing did not raise
FoundIn == [n \in 1..Len(Messages) |->
               IF RaisesIn(Messages[n]) THEN {} ELSE AllFound(Messages[n])]
FoundPairs == UNION {FoundIn[mailbox[n]] : n \in 1..Len(mailbox)}

\* what _normalize_service_name can return for a keyword of the classifier
ServiceNames ==
    {normalize_service_name(w) :
        w \in UNION {Range(patterns[k].keywords) : k \in 1..Len(patterns)}}

\* the service names that the domain resolution takes to themselves
SelfNamed == {w \in ServiceNames : extract_domain_from_email(w) = w}

\* C19: the categories of a record are those of the pairs found whose service
\* word, taken as a domain, is the key of the record (the word itself, in lower
\* case); a record with a category has the name of a service as its key
C19_CategoryUnderServiceName ==
    /\ \A q \in FoundPairs : q[1] \in SelfNamed
    /\ \A d \in DOMAIN domain_data :
          /\ domain_data[d].categories = {q[2] : q \in {r \in FoundPairs : r[1] = d}}
          /\ domain_data[d].categories # {} => d \in ServiceNames

\* C19 witness: a message of Netflix <info@netflix> that names netflix and hulu
\* was scanned: hulu has a category and no sender, and the record of the
\* sender has one because its key is the word netflix
C19_HuluHasNoSender ==
    /\ mailbox = <<6>>
    /\ domain_data[Str("hulu")].categories = {"Subscription Services"}
    /\ domain_data[Str("hulu")].senders = <<>>
    /\ domain_data[Str("netflix")].categories = {"Subscription Services"}

\* a message scanned so far, with a sender that resolves to domain, carried a
\* List-Unsubscribe header
HeaderSeenFrom(domain) ==
    \E k \in ScannedFrom(domain) : Messages[mailbox[k]].list_unsubscribe # None

\* C20: in every state the list_unsubscribe flag of a domain is true exactly
\* when a scanned message from that domain carried a List-Unsubscribe header,
\* and no step takes the flag of a domain from true to false
C20_FlagIffHeaderSeen ==
    /\ [](\A d \in DOMAIN domain_data \cup {SenderDomain(mailbox[k]) : k \in 1..Len(mailbox)} :
             d # None => (Rec(domain_data, d).list_unsubscribe <=> HeaderSeenFrom(d)))
    /\ [][\A d \in DOMAIN domain_data :
             domain_data[d].list_unsubscribe
                => d \in DOMAIN domain_data' /\ domain_data'[d].list_unsubscribe]_vars

\* C20 witness: netflix sent a message with the header and then one without
\* it, and its flag is true; a domain scanned without the header would be false
C20_FlagStaysTrue ==
    /\ mailbox = <<4, 5>>
    /\ domain_data[Str("netflix")].list_unsubscribe

\* C21: after any scan, the timestamp stored for a URL under a domain is the
\* greatest timestamp with which that URL was taken in for that domain.
C21_StoredIsMaxIngested ==
    \A c \in url_calls :
        Stored(c.domain, c.url).timestamp.t =
            Max({x.timestamp.t : x \in CallsFor(c.domain, c.url)})

\* the candidates of a record that hold its greatest timestamp
MostRecentOf(data) ==
    {k \in 1..Len(data.unsubscribe_data) :
        data.unsubscribe_data[k].value.timestamp.t =
            Max({data.unsubscribe_data[j].value.timestamp.t :
                    j \in 1..Len(data.unsubscribe_data)})}
\* the Token and Last Updated columns of a row are those of candidate e
ColumnsOf(row, e) ==
    /\ row.LastUpdated = str_datetime(e.timestamp)
    /\ row.Token = IF e.token = None THEN Str("No token") ELSE e.token

\* C22: in every row of the report, Token and Last Updated are the token and
\* the timestamp of a candidate of the domain with the greatest timestamp,
\* "No token" standing for a missing token, and both are "N/A" when the domain
\* has no candidate.
C22_TokenOfMostRecent ==
    \A n \in 1..Len(report) :
        IF domain_data[report[n].Domain].unsubscribe_data = <<>>
        THEN report[n].Token = Str("N/A") /\ report[n].LastUpdated = Str("N/A")
        ELSE \E k \in MostRecentOf(domain_data[report[n].Domain]) :
                ColumnsOf(report[n],
                          domain_data[report[n].Domain].unsubscribe_data[k].value)

\* the row of netflix after messages 4 and 5: the candidate of 6 January is
\* reported, the one of 4 January is not
C22_NewestOfTwoReported ==
    /\ pc = "saved"
    /\ mailbox = <<4, 5>>
    /\ \E n \in 1..Len(report) :
          /\ report[n].Domain = Str("netflix")
          /\ report[n].Token = Str("t1")
          /\ report[n].LastUpdated = <<6, TRUE>>
          /\ Len(domain_data[Str("netflix")].unsubscribe_data) = 2
          /\ \E k \in 1..2 :
                domain_data[Str("netflix")].unsubscribe_data[k].value.timestamp.t = 4

\* the senders counted under a domain
SendersOf(domain) == DictKeys(domain_data[domain].senders)

\* C23: every key of the domain map is lowercase, and senders that differ
\* only in letter case are counted in one and the same record.
C23_LowercaseOneRecord ==
    /\ \A d \in DOMAIN domain_data : d = lower(d)
    /\ \A d1, d2 \in DOMAIN domain_data :
          \A s1 \in SendersOf(d1), s2 \in SendersOf(d2) :
              lower(s1) = lower(s2) => d1 = d2

\* C26: in every record, every URL that has a timestamp and token stored in
\* unsubscribe_data is in the record's unsubscribe_urls.
C26_CandidatesAreListed ==
    \A d \in DOMAIN domain_data :
        DictKeys(domain_data[d].unsubscribe_data) \subseteq domain_data[d].unsubscribe_urls

\* the record of hulu after message 6: no message came from hulu, no header
\* was stored for it, and the URL found in the body of message 6 is both a
\* candidate and listed
C26_BodyUrlListed ==
    /\ mailbox = <<6>>
    /\ Str("hulu") \in DOMAIN domain_data
    /\ domain_data[Str("hulu")].senders = <<>>
    /\ DictKeys(domain_data[Str("hulu")].unsubscribe_data) = {Str("http://n.io/optout?id=2")}
    /\ domain_data[Str("hulu")].unsubscribe_urls = {Str("http://n.io/optout?id=2")}

\* the positions of the mailbox whose message came from domain with a
\* List-Unsubscribe header
HeaderCarriers(domain) ==
    {k \in ScannedFrom(domain) : Messages[mailbox[k]].list_unsubscribe # None}

\* C27: in every record the list_unsubscribe flag is true exactly when a
\* last_unsubscribe_header is stored, and the header stored is that of the
\* last scanned message from the domain that carried one; in every row of the
\* report List-Unsubscribe is Yes exactly when Unsubscribe Header is not empty.
C27_FlagIffHeaderStored ==
    /\ \A d \in DOMAIN domain_data :
          /\ domain_data[d].list_unsubscribe
                <=> domain_data[d].last_unsubscribe_header # None
          /\ domain_data[d].last_unsubscribe_header # None =>
                /\ HeaderCarriers(d) # {}
                /\ domain_data[d].last_unsubscribe_header =
                       Messages[mailbox[Max(HeaderCarriers(d))]].list_unsubscribe
    /\ \A n \in 1..Len(report) :
          report[n].ListUnsubscribe = Str("Yes") <=> report[n].UnsubscribeHeader # Str("")

\* two messages from netflix with different headers: the header of message 9,
\* scanned last, is the one stored
C27_LaterHeaderStored ==
    /\ mailbox = <<4, 9>>
    /\ HeaderCarriers(Str("netflix")) = {1, 2}
    /\ Messages[4].list_unsubscribe # Messages[9].list_unsubscribe
    /\ domain_data[Str("netflix")].list_unsubscribe
    /\ domain_data[Str("netflix")].last_unsubscribe_header = Str("<mailto:stop@n.io>")

(***************************************************************************)
(* Properties of the runs                                                  *)
(***************************************************************************)
\* main has ended, by its last statement or by an exception
MainOver == pc \in {"exit", "failed", "raised"} \/ xpc \in {"exit", "failed"}

\* C12: when the run is over, no session that was opened is still open: the
\* IMAP session was logged out and the SMTP session was quit
C12_SessionsClosedAtExit ==
    MainOver => imap \in {"none", "logout"} /\ smtp \in {"none", "quit"}

\* nothing of the scan, of the report or of the executor's work is there
NothingDone ==
    /\ total_emails = 0 /\ mailbox = <<>> /\ domain_data = <<>> /\ report = <<>>
    /\ row_index <= 1 /\ processed_domains = {} /\ net = <<>>
    /\ imap # "selected"

\* C13: after connect() failed no message is scanned, no report is written, no
\* CSV row is processed and no unsubscribe action is done: the run goes to its
\* end and nothing else changes
C13_ConnectFailureFatal ==
    /\ connected = "failed" => NothingDone /\ pc \in {"off", "failed"}
                               /\ xpc \in {"off", "failed"}
    /\ connected = "no" => NothingDone

\* C13 witness: the executor could not log in to the SMTP server; its CSV file
\* has a row that asks for an unsubscribe and the run is over
C13_ExecutorGaveUp ==
    /\ connected = "failed" /\ xpc = "failed"
    /\ imap = "open" /\ smtp = "open"
    /\ csv_rows = <<1>>

(***************************************************************************)
(* Properties of the executor                                              *)
(***************************************************************************)
\* the call that opened the attempt call i of net belongs to
RECURSIVE SearchOf(_)
SearchOf(i) == IF net[i].call = "search" THEN i ELSE SearchOf(i - 1)

\* the URLs fetched between calls s and i of net, in order
Fetched(s, i) ==
    SelectSeq(SubSeq(net, s + 1, i - 1), LAMBDA c : c.call = "get")

UrlsOf(calls) == [k \in 1..Len(calls) |-> calls[k].url]

\* call i of net made its attempt succeed
Succeeded(i) ==
    \/ net[i].call = "get" /\ net[i].outcome = "200"
    \/ net[i].call = "send_message" /\ net[i].sent

\* the attempt of call i has returned to process_csv
Returned(i) ==
    \/ xpc \in {"row", "done"}
    \/ \E j \in (i + 1)..Len(net) : net[j].call = "search"

\* C4: a mail is sent only after every URL found for the domain was fetched,
\* in order, and none answered 200; an attempt in which a URL answered 200 has
\* succeeded, whatever mailto targets were found
C4_HttpBeforeMailto ==
    /\ \A i \in 1..Len(net) :
          net[i].call = "send_message" =>
             /\ UrlsOf(Fetched(SearchOf(i), i)) = net[SearchOf(i)].found.urls
             /\ \A k \in SearchOf(i)..i : ~(net[k].call = "get" /\ net[k].outcome = "200")
    /\ \A i \in 1..Len(net) :
          net[i].call = "get" /\ net[i].outcome = "200" /\ Returned(i) =>
             \A k \in SearchOf(i)..Len(net) :
                net[k].call = "send_message" => SearchOf(k) # SearchOf(i)
    /\ xpc = "return" /\ net[Len(net)].call = "get" /\ net[Len(net)].outcome = "200"
          => success

\* C4 witness: the domain has URLs and a mailto target, the second URL answered
\* 200 and the attempt returns success with no mail sent
C4_SuccessViaHttp ==
    /\ xpc = "return" /\ success
    /\ net[SearchOf(Len(net))].found.mailtos # <<>>
    /\ Len(net[SearchOf(Len(net))].found.urls) = 2
    /\ net[Len(net)].call = "get" /\ net[Len(net)].outcome = "200"
    /\ net[Len(net)].url = net[SearchOf(Len(net))].found.urls[2]

\* a flag of the report that says yes: the text yes in any case, blanks around
\* it aside
Affirmative(field) ==
    /\ field # NoField
    /\ \E k \in 0..Len(field) : \E m \in 0..Len(field) :
          /\ k + 3 + m = Len(field)
          /\ \A j \in 1..k : field[j] \in SpaceChars
          /\ \A j \in (k + 4)..Len(field) : field[j] \in SpaceChars
          /\ field[k + 1] \in {"y", "Y"}
          /\ field[k + 2] \in {"e", "E"}
          /\ field[k + 3] \in {"s", "S"}

\* the three conditions of an attempt hold for the row the loop is at
MayAttempt ==
    /\ Affirmative(Row.Delete)
    /\ Affirmative(Row.ListUnsubscribe)
    /\ Row.Domain \notin processed_domains

\* C5: process_csv leaves a row with a network action only if the row's Delete
\* and List-Unsubscribe flags are affirmative and its domain is not in the
\* processed set; with any other row no call is made
C5_AttemptOnlyIfSelected ==
    [][xpc = "row" /\ row_index <= Len(csv_rows) =>
          /\ net' # net => MayAttempt
          /\ ~MayAttempt => net' = net /\ xpc' \in {"row", "done"}]_vars

\* C5 witness: the first row has Delete yes and List-Unsubscribe No and was
\* passed with no call; the second row has both and its attempt has started
C5_SecondRowAttempted ==
    /\ csv_rows = <<3, 1>>
    /\ row_index = 2
    /\ xpc = "http"
    /\ Len(net) = 1

\* C6: after an attempt for a domain succeeded and returned, the domain is in
\* the processed set, and no attempt for that domain follows a successful one
C6_ProcessedOnce ==
    \A i \in 1..Len(net) :
       Succeeded(i) =>
          /\ Returned(i) => net[SearchOf(i)].domain \in processed_domains
          /\ \A j \in (i + 1)..Len(net) :
                net[j].call = "search" => net[j].domain # net[SearchOf(i)].domain

\* C6 witness: two rows for n.io, the attempt of the first succeeded, the
\* second row was passed and the run made one search only
C6_DuplicateRowPassed ==
    /\ csv_rows = <<1, 1>>
    /\ xpc = "done"
    /\ processed_domains = {Str("n.io")}
    /\ Len(SelectSeq(net, LAMBDA c : c.call = "search")) = 1
    /\ \E i \in 1..Len(net) : Succeeded(i)

\* the calls of the attempt opened by call s of net, s left out
AttemptOf(s) ==
    SelectSeq([k \in 1..(Len(net) - s) |-> [at |-> s + k, c |-> net[s + k]]],
              LAMBDA x : SearchOf(x.at) = s)

GetsOf(s) == SelectSeq(AttemptOf(s), LAMBDA x : x.c.call = "get")
SendsOf(s) == SelectSeq(AttemptOf(s), LAMBDA x : x.c.call = "send_message")

\* a is the start of b
IsPrefix(a, b) == Len(a) <= Len(b) /\ a = SubSeq(b, 1, Len(a))

\* C16: in an attempt, after the first fetch that answers 200 or the first
\* mail that is sent, no URL is fetched and no mail is sent
C16_FirstSuccessWins ==
    \A i \in 1..Len(net) :
       Succeeded(i) =>
          \A j \in (i + 1)..Len(net) :
             net[j].call \in {"get", "send_message"} => SearchOf(j) # SearchOf(i)

\* C16 witness: the first of two URLs answered 200 and the attempt returns with
\* the second URL and the mailto target untried
C16_RestUntried ==
    /\ xpc = "return" /\ success
    /\ Len(net) = 2 /\ net[2].call = "get" /\ net[2].outcome = "200"
    /\ Len(net[1].found.urls) = 2 /\ net[1].found.mailtos # <<>>

\* C17: a candidate that fails ends neither the attempt nor the run.  The URLs
\* are fetched in the listed order and the mails sent in the listed order; an
\* attempt that returned with no success fetched every URL and mailed every
\* target; process_csv is done only at the end of the file or at a row whose
\* condition raises
C17_FailedCandidateGoesOn ==
    /\ \A s \in 1..Len(net) :
          net[s].call = "search" =>
             /\ IsPrefix([k \in 1..Len(GetsOf(s)) |-> GetsOf(s)[k].c.url],
                         net[s].found.urls)
             /\ IsPrefix([k \in 1..Len(SendsOf(s)) |-> SendsOf(s)[k].c.to],
                         [k \in 1..Len(net[s].found.mailtos) |->
                             parse_mailto(net[s].found.mailtos[k]).email])
             /\ Returned(s) /\ (\A k \in 1..Len(AttemptOf(s)) : ~Succeeded(AttemptOf(s)[k].at))
                   => /\ Len(GetsOf(s)) = Len(net[s].found.urls)
                      /\ Len(SendsOf(s)) = Len(net[s].found.mailtos)
    /\ xpc = "done" => row_index > Len(csv_rows) \/ condition_raises(Row)

\* C17 witness: for n.io the first URL answered 404, the second fetch raised
\* and the mail was not sent; process_csv is at the next row
C17_AllFailedNextRow ==
    /\ csv_rows = <<1, 2>> /\ row_index = 2 /\ xpc = "row"
    /\ Len(net) = 4
    /\ net[2].call = "get" /\ net[2].outcome = "404"
    /\ net[3].call = "get" /\ net[3].outcome = "raised"
    /\ net[4].call = "send_message" /\ ~net[4].sent

\* C18: unsubscribe_from_domain returns success exactly when a fetch of its
\* attempt answered 200 or a mail of its attempt was sent
C18_SuccessIffSomeMethod ==
    xpc = "return" =>
       (success <=> \E k \in 1..Len(AttemptOf(SearchOf(Len(net)))) :
                       Succeeded(AttemptOf(SearchOf(Len(net)))[k].at))

\* C18 witness: every URL and the mailto target of n.io failed and the attempt
\* returns failure
C18_AllMethodsFailed ==
    /\ xpc = "return" /\ ~success
    /\ Len(GetsOf(SearchOf(Len(net)))) = 2
    /\ Len(SendsOf(SearchOf(Len(net)))) = 1

\* the searches of net whose attempt has returned, with or without success
ReturnedWith(ok) ==
    {s \in 1..Len(net) :
        /\ net[s].call = "search"
        /\ Returned(s)
        /\ ok <=> \E k \in 1..Len(AttemptOf(s)) : Succeeded(AttemptOf(s)[k].at)}

\* C24: the processed set holds exactly the domains of the attempts that
\* returned success; and a row with both flags affirmative whose domain was
\* attempted without success so far starts a new attempt for that domain
C24_ProcessedAreSuccesses ==
    /\ [](processed_domains = {net[s].domain : s \in ReturnedWith(TRUE)})
    /\ [][(/\ xpc = "row" /\ row_index <= Len(csv_rows)
           /\ Affirmative(Row.Delete) /\ Affirmative(Row.ListUnsubscribe)
           /\ Row.Domain \in {net[s].domain : s \in ReturnedWith(FALSE)}
           /\ Row.Domain \notin {net[s].domain : s \in ReturnedWith(TRUE)})
          => /\ Len(net') = Len(net) + 1
             /\ net'[Len(net')].call = "search"
             /\ net'[Len(net')].domain = Row.Domain]_vars

\* C24 witness: two rows for n.io; the attempt of the first fetched both URLs
\* and failed, the processed set is empty and the second row has started a
\* second search for n.io
C24_FailedDomainTriedAgain ==
    /\ csv_rows = <<1, 1>>
    /\ row_index = 2 /\ xpc = "http"
    /\ processed_domains = {}
    /\ net[1].call = "search" /\ net[1].domain = Str("n.io")
    /\ Len(GetsOf(1)) = 2
    /\ net[Len(net)].call = "search" /\ net[Len(net)].domain = Str("n.io")
    /\ Len(net) > 1

\* the messages of the inbox whose From holds the domain, whatever the case
\* of the letters, and that have a List-Unsubscribe header
MatchingWithHeader(domain) ==
    IF domain = NoField THEN {}
    ELSE {k \in 1..Len(Inbox) : /\ Contains(lower(Inbox[k].from), lower(domain))
                                /\ Inbox[k].list_unsubscribe # None}

\* for every domain of the report, the targets in the header of the newest
\* such message
NewestTargets ==
    [d \in {Rows[r].Domain : r \in 1..Len(Rows)} |->
        IF MatchingWithHeader(d) = {} THEN NoInfo
        ELSE unsub_extract_unsubscribe_info(
                 Inbox[Max(MatchingWithHeader(d))].list_unsubscribe)]

C10_DomainAfterAt ==
    resolved.called => resolved.domain = lower(from_input.domain)

\* C14: when the executor is done with the report, every row of the file has
\* an added Status column
C14_StatusColumnWritten ==
    xpc = "done" =>
       \A n \in 1..Len(csv_file(csv_rows)) : "Status" \in DOMAIN csv_file(csv_rows)[n]

====
